---------------------------- MODULE Spec2Model ----------------------------
(***************************************************************************)
(* A model of gocal's util.go: the configured-event expander               *)
(* (readConfigurationfile), the calendar-exchange importer (readICSfile),  *)
(* the locale name provider (getLocalizedWeekdayNames) and the moon-phase  *)
(* calculator (computeMoonphasesJ, computeMoonphases).                     *)
(*                                                                         *)
(* Go strings are modelled as sequences: a Date or a weekday name is a     *)
(* sequence of one-character strings, a text is a sequence of bytes        *)
(* (UTF-8 before convertCP, windows-1252 after it).                        *)
(***************************************************************************)
EXTENDS Integers, Sequences, FiniteSets, TLC

VARIABLES
    \* readConfigurationfile
    cfPc,        \* "open" | "read" | "unmarshal" | "loop" | "returned" | "fatal"
    cfOpenErr,   \* os.Open fails
    cfReadErr,   \* ioutil.ReadAll fails
    cfXmlErr,    \* xml.Unmarshal fails
    v,           \* TelegramStore.Gocaldate, the parsed raw entries
    cfIdx,       \* number of entries the range loop has processed
    eL,          \* the named result of readConfigurationfile
    cfRet,       \* what the caller received (<<>> until the return)
    cfStart,     \* history: Len(eL) before each processed entry, then at the end
    \* getLocalizedWeekdayNames, called with cutoff 0 and then with wdCutoff
    wdLocale,    \* the locale: the name monday.Format yields for each offset 0..6
    wdCutoff,    \* the cutoff argument of the second call
    wdCall,      \* 1: the call with cutoff 0, 2: the call with wdCutoff
    wdI,         \* the loop variable i
    wdnames,     \* the result array [8]string of the running call
    wdFull,      \* the table the call with cutoff 0 returned
    wdPc,        \* "loop" | "returned" | "panic"
    \* readICSfile, called twice on the same file
    icsEvents,   \* the events the parser finds in the file, in order
    targetyear,  \* the targetyear argument
    icsRun,      \* 1: the first call, 2: the second call
    callerPc,    \* "send" | "spawn" | "wait" | "returned"
    parserPc,    \* "idle" | "parsing" | "done"
    emitted,     \* number of events handed over on outputChan
    consPc,      \* the consumer goroutine: "none" | "recv" | "got"
    consEvent,   \* the event the consumer holds (<<>>: none)
    icsEL,       \* the named result eL the consumer appends to
    icsRet,      \* what the caller received
    icsFirst,    \* what the first call returned
    \* computeMoonphasesJ
    mjYr,        \* the yr argument
    mjI,         \* the loop variable i
    mjLeft,      \* the keys of moon_funcs the inner range loop has yet to visit
    moonJ,       \* the map moonJ
    mjPc,        \* "loop" | "done"
    \* computeMoonphases
    moYr,        \* the yr argument
    moMo,        \* the mo argument
    moDa,        \* the da argument
    moI,         \* the loop variable i
    moSub,       \* which of the four tests of the iteration comes next (1..4)
    moon,        \* the map moon
    moMatched,   \* history: for each i, the phase kinds whose test matched
    moPc         \* "loop" | "done"

cfVars == <<cfPc, cfOpenErr, cfReadErr, cfXmlErr, v, cfIdx, eL, cfRet, cfStart>>

wdVars == <<wdLocale, wdCutoff, wdCall, wdI, wdnames, wdFull, wdPc>>

icsVars == <<icsEvents, targetyear, icsRun, callerPc, parserPc, emitted,
             consPc, consEvent, icsEL, icsRet, icsFirst>>

mjVars == <<mjYr, mjI, mjLeft, moonJ, mjPc>>

moVars == <<moYr, moMo, moDa, moI, moSub, moon, moMatched, moPc>>

vars == <<cfVars, wdVars, icsVars, mjVars, moVars>>

\* What each function leaves alone: the state of the other functions.
CfOthers == <<wdVars, icsVars, mjVars, moVars>>

WdOthers == <<cfVars, icsVars, mjVars, moVars>>

IcsOthers == <<cfVars, wdVars, mjVars, moVars>>

MjOthers == <<cfVars, wdVars, icsVars, moVars>>

MoOthers == <<cfVars, wdVars, icsVars, mjVars>>

-----------------------------------------------------------------------------
(* Bounds *)

MaxEntries == 2

MaxCutoff == 3

MaxEvents == 2

-----------------------------------------------------------------------------
(* Strings *)

Digits == <<"0", "1", "2", "3", "4", "5", "6", "7", "8", "9">>

IsDigit(c) == \E i \in 1..10 : Digits[i] = c

DigitVal(c) == (CHOOSE i \in 1..10 : Digits[i] = c) - 1

MaxInt32 == 2147483647

\* strconv.ParseInt(s, 10, 32) with the error dropped (`d, _ :=`): the value is
\* 0 on a syntax error and the largest magnitude of the sign on a range error.
RECURSIVE ParseDigits(_, _)
ParseDigits(s, acc) ==
    IF s = <<>> THEN acc
    ELSE IF ~IsDigit(Head(s)) THEN -1
    ELSE IF acc > (MaxInt32 - DigitVal(Head(s))) \div 10 THEN -2
    ELSE ParseDigits(Tail(s), acc * 10 + DigitVal(Head(s)))

ParseInt(s) ==
    LET neg  == s # <<>> /\ Head(s) = "-"
        sign == s # <<>> /\ Head(s) \in {"-", "+"}
        body == IF sign THEN Tail(s) ELSE s
        n    == IF body = <<>> THEN -1 ELSE ParseDigits(body, 0)
    IN  IF n = -1 THEN 0
        ELSE IF n = -2 THEN (IF neg THEN -MaxInt32 - 1 ELSE MaxInt32)
        ELSE IF neg THEN -n ELSE n

\* strings.Index(s, "/") != -1
HasSlash(s) == \E i \in 1..Len(s) : s[i] = "/"

\* strings.Split(s, "/")
RECURSIVE SplitFrom(_, _)
SplitFrom(s, cur) ==
    IF s = <<>> THEN <<cur>>
    ELSE IF Head(s) = "/" THEN <<cur>> \o SplitFrom(Tail(s), <<>>)
    ELSE SplitFrom(Tail(s), Append(cur, Head(s)))

Split(s) == SplitFrom(s, <<>>)

\* convertCP: the UTF-8 bytes of `in` written through a windows-1252 writer.
\* One-, two- and three-byte sequences are decoded to a code point; U+20AC is
\* byte 128 in windows-1252 and the code points below 256 used here keep
\* their value.  The inputs hold no '%' (the text is used as a format string)
\* and no code point outside windows-1252.
CP1252(r) == IF r = 8364 THEN 128 ELSE r

RECURSIVE convertCP(_)
convertCP(in) ==
    IF in = <<>> THEN <<>>
    ELSE IF in[1] < 128
         THEN <<CP1252(in[1])>> \o convertCP(SubSeq(in, 2, Len(in)))
    ELSE IF in[1] < 224
         THEN <<CP1252((in[1] - 192) * 64 + (in[2] - 128))>>
                  \o convertCP(SubSeq(in, 3, Len(in)))
    ELSE <<CP1252((in[1] - 224) * 4096 + (in[2] - 128) * 64 + (in[3] - 128))>>
             \o convertCP(SubSeq(in, 4, Len(in)))

-----------------------------------------------------------------------------
(* readConfigurationfile *)

\* gDate{Month, Day, Text, Weekday, Image}
gDate(mo, d, text, wd, img) ==
    [month |-> mo, day |-> d, text |-> text, weekday |-> wd, image |-> img]

\* The Date fields the raw entries are drawn from.
Dates ==
    { <<"*", "/", "1", "5">>, <<"*", "/", "7">>, <<"*", "/", "x">>,
      <<"3", "/", "7">>, <<"1", "2", "/", "3", "1">>, <<"1", "3", "/", "4", "0">>,
      <<"x", "/", "y">>, <<"/">>, <<"*", "/", "4", "/", "2">>,
      <<"M", "o", "n", "d", "a", "y">>, <<"*">>, <<>> }

\* "é" and "5€" in UTF-8
Texts == { <<195, 169>>, <<53, 226, 130, 172>> }

Images == { <<>>, <<"a", ".", "j", "p", "g">> }

Gocaldate == [Date : Dates, Text : Texts, Image : Images]

RECURSIVE SeqsUpTo(_, _)
SeqsUpTo(S, n) ==
    IF n = 0 THEN { <<>> }
    ELSE LET shorter == SeqsUpTo(S, n - 1)
         IN  shorter \cup { Append(s, x) : s \in { t \in shorter : Len(t) = n - 1 }, x \in S }

\* The loop with the bound j < 12.
WildcardMonthsShort == [j \in 1..11 |-> j]

\* for j := 1; j < 13; j++
WildcardMonths == [j \in 1..12 |-> j]

\* The weekday record with the image left out.
WeekdayRecordNoImage(m) == gDate(0, 0, convertCP(m.Text), m.Date, <<>>)

\* The record of a weekday entry (the else branch of the slash test).
WeekdayRecord(m) == gDate(0, 0, convertCP(m.Text), m.Date, m.Image)

\* The body of `for _, m := range v.Gocaldate`: the records one entry appends.
ExpandEntry(m) ==
    IF HasSlash(m.Date)
    THEN LET textArray == Split(m.Date)
             eventText == convertCP(m.Text)
         IN  IF textArray[1] = <<"*">>
             THEN LET d == ParseInt(textArray[2])
                  IN  [j \in 1..Len(WildcardMonths) |->
                          gDate(WildcardMonths[j], d, eventText, <<>>, m.Image)]
             ELSE LET mo == ParseInt(textArray[1])
                      d  == ParseInt(textArray[2])
                  IN  <<gDate(mo, d, eventText, <<>>, m.Image)>>
    ELSE <<WeekdayRecord(m)>>

WdIdle ==
    /\ wdLocale = <<>>
    /\ wdCutoff = 0
    /\ wdCall = 0
    /\ wdI = 0
    /\ wdnames = <<>>
    /\ wdFull = <<>>
    /\ wdPc = "idle"

IcsIdle ==
    /\ icsEvents = <<>>
    /\ targetyear = 0
    /\ icsRun = 0
    /\ callerPc = "idle"
    /\ parserPc = "idle"
    /\ emitted = 0
    /\ consPc = "none"
    /\ consEvent = <<>>
    /\ icsEL = <<>>
    /\ icsRet = <<>>
    /\ icsFirst = <<>>

\* An empty map.
EmptyMap == [k \in {} |-> <<>>]

MjIdle ==
    /\ mjYr = 0
    /\ mjI = 0
    /\ mjLeft = {}
    /\ moonJ = EmptyMap
    /\ mjPc = "idle"

MoIdle ==
    /\ moYr = 0
    /\ moMo = 0
    /\ moDa = 0
    /\ moI = 0
    /\ moSub = 0
    /\ moon = EmptyMap
    /\ moMatched = EmptyMap
    /\ moPc = "idle"

CfInit ==
    /\ WdIdle
    /\ IcsIdle
    /\ MjIdle
    /\ MoIdle
    /\ cfPc = "open"
    /\ cfOpenErr \in BOOLEAN
    /\ cfReadErr \in BOOLEAN
    /\ cfXmlErr \in BOOLEAN
    /\ v = <<>>
    /\ cfIdx = 0
    /\ eL = <<>>
    /\ cfRet = <<>>
    /\ cfStart = <<>>

\* f, err := os.Open(filename); if err != nil { return }
CfOpen ==
    /\ cfPc = "open"
    /\ IF cfOpenErr
       THEN cfPc' = "returned" /\ cfRet' = eL
       ELSE cfPc' = "read" /\ cfRet' = cfRet
    /\ UNCHANGED <<cfOpenErr, cfReadErr, cfXmlErr, v, cfIdx, eL, cfStart>>
    /\ UNCHANGED CfOthers

\* data, err := ioutil.ReadAll(f); if err != nil { return }
CfRead ==
    /\ cfPc = "read"
    /\ IF cfReadErr
       THEN cfPc' = "returned" /\ cfRet' = eL
       ELSE cfPc' = "unmarshal" /\ cfRet' = cfRet
    /\ UNCHANGED <<cfOpenErr, cfReadErr, cfXmlErr, v, cfIdx, eL, cfStart>>
    /\ UNCHANGED CfOthers

\* A logging call that does not exit: the `return` after it runs.
FatalReturns == "returned"

\* What log.Fatalf leads to: the process exits, the `return` after it is dead.
FatalPc == "fatal"

\* err2 := xml.Unmarshal(data, &v); if err2 != nil { log.Fatalf(...) }
CfUnmarshal ==
    /\ cfPc = "unmarshal"
    /\ IF cfXmlErr
       THEN /\ cfPc' = FatalPc
            /\ \E part \in SeqsUpTo(Gocaldate, 1) : v' = part
            /\ cfRet' = IF FatalPc = "returned" THEN eL ELSE cfRet
       ELSE /\ cfPc' = "loop"
            /\ \E all \in SeqsUpTo(Gocaldate, MaxEntries) : v' = all
            /\ cfRet' = cfRet
    /\ UNCHANGED <<cfOpenErr, cfReadErr, cfXmlErr, cfIdx, eL, cfStart>>
    /\ UNCHANGED CfOthers

\* One iteration of the range loop.
CfEntry ==
    /\ cfPc = "loop"
    /\ cfIdx < Len(v)
    /\ eL' = eL \o ExpandEntry(v[cfIdx + 1])
    /\ cfStart' = Append(cfStart, Len(eL))
    /\ cfIdx' = cfIdx + 1
    /\ UNCHANGED <<cfPc, cfOpenErr, cfReadErr, cfXmlErr, v, cfRet>>
    /\ UNCHANGED CfOthers

\* return eL
CfReturn ==
    /\ cfPc = "loop"
    /\ cfIdx = Len(v)
    /\ cfPc' = "returned"
    /\ cfRet' = eL
    /\ cfStart' = Append(cfStart, Len(eL))
    /\ UNCHANGED <<cfOpenErr, cfReadErr, cfXmlErr, v, cfIdx, eL>>
    /\ UNCHANGED CfOthers

CfNext == CfOpen \/ CfRead \/ CfUnmarshal \/ CfEntry \/ CfReturn

SpecConf == CfInit /\ [][CfNext]_vars

-----------------------------------------------------------------------------
(* Properties of readConfigurationfile *)

DateAddressed(r) ==
    r.month \in 1..12 /\ r.day \in 1..31 /\ r.weekday = <<>>

WeekdayAddressed(r) ==
    r.month = 0 /\ r.day = 0 /\ r.weekday # <<>>

\* The records entry k appended are eL[SegStart(k)+1 .. SegEnd(k)].
SegStart(k) == cfStart[k]

SegEnd(k) == IF k < cfIdx THEN cfStart[k + 1] ELSE Len(eL)

\* Date is "*/D" with D a one- or two-digit day number in 1..31.
DayNumber(date) ==
    IF Len(date) = 3 THEN DigitVal(date[3])
    ELSE 10 * DigitVal(date[3]) + DigitVal(date[4])

IsWildcardDate(date) ==
    /\ Len(date) \in {3, 4}
    /\ date[1] = "*"
    /\ date[2] = "/"
    /\ \A i \in 3..Len(date) : IsDigit(date[i])
    /\ DayNumber(date) \in 1..31

NoSlash(date) == \A i \in 1..Len(date) : date[i] # "/"

\* C6: an entry whose Date is "*/D" appends exactly 12 consecutive records,
\* months 1, 2, ..., 12 in that order, each with day D, an empty weekday, the
\* converted text and the entry's image.
C6_WildcardExpandsToTwelve ==
    \A k \in 1..cfIdx :
        IsWildcardDate(v[k].Date) =>
            /\ SegEnd(k) - SegStart(k) = 12
            /\ \A j \in 1..12 :
                   eL[SegStart(k) + j] =
                       [month |-> j, day |-> DayNumber(v[k].Date),
                        text |-> convertCP(v[k].Text), weekday |-> <<>>,
                        image |-> v[k].Image]

\* A returned result whose second entry was a wildcard entry with an image.
C6_Witness ==
    /\ cfPc = "returned"
    /\ Len(v) = 2
    /\ IsWildcardDate(v[2].Date)
    /\ v[2].Image # <<>>
    /\ Len(cfRet) >= 13
    /\ cfRet[Len(cfRet)].month = 12

C8_FailureOutcomes ==
    /\ (cfPc = "returned" /\ (cfOpenErr \/ cfReadErr)) => cfRet = <<>>
    /\ (~cfOpenErr /\ ~cfReadErr /\ cfXmlErr) =>
           /\ cfPc \in {"open", "read", "unmarshal", "fatal"}
           /\ cfRet = <<>>
    /\ cfPc = "fatal" =>
           /\ ~cfOpenErr /\ ~cfReadErr /\ cfXmlErr
           /\ ~ENABLED CfNext

\* The fatal exit, taken after the decoder had already stored an entry.
C8_Witness ==
    /\ cfPc = "fatal"
    /\ v # <<>>
    /\ cfRet = <<>>

\* C2 as stated: every record readConfigurationfile or readICSfile returned is
\* date-addressed or weekday-addressed.
C2_EveryRecordAddressed ==
    /\ \A i \in 1..Len(cfRet) :
           DateAddressed(cfRet[i]) \/ WeekdayAddressed(cfRet[i])
    /\ \A i \in 1..Len(icsRet) :
           DateAddressed(icsRet[i]) \/ WeekdayAddressed(icsRet[i])

-----------------------------------------------------------------------------
(* getLocalizedWeekdayNames *)

\* The names a locale may hold, in UTF-8: "sábado", "Mon", "né".  After
\* convertCP they are 6, 3 and 2 bytes long.
Names == { <<115, 195, 161, 98, 97, 100, 111>>, <<77, 111, 110>>, <<110, 195, 169>> }

Cutoffs == 0..MaxCutoff

\* var wdnames [8]string
EmptyTable == [j \in 0..7 |-> <<>>]

\* The slot wdnames[i+1].
WdIndexShifted(i) == i + 1

\* The slot the iteration with offset i writes: wdnames[i].
WdIndex(i) == i

\* The cutoff of the running call.
CurCutoff == IF wdCall = 1 THEN 0 ELSE wdCutoff

CfIdle ==
    /\ cfPc = "idle"
    /\ cfOpenErr = FALSE
    /\ cfReadErr = FALSE
    /\ cfXmlErr = FALSE
    /\ v = <<>>
    /\ cfIdx = 0
    /\ eL = <<>>
    /\ cfRet = <<>>
    /\ cfStart = <<>>

WdInit ==
    /\ CfIdle
    /\ IcsIdle
    /\ MjIdle
    /\ MoIdle
    /\ wdLocale \in [0..6 -> Names]
    /\ wdCutoff \in Cutoffs
    /\ wdCall = 1
    /\ wdI = 0
    /\ wdnames = EmptyTable
    /\ wdFull = EmptyTable
    /\ wdPc = "loop"

\* One iteration of `for i := 0; i <= 6; i++`: format the reference date of
\* offset i, convert, and slice to the cutoff; the slice expression panics
\* when the cutoff exceeds the length of the converted name.
WdStep ==
    /\ wdPc = "loop"
    /\ wdI <= 6
    /\ LET name == convertCP(wdLocale[wdI])
       IN  IF CurCutoff > 0 /\ CurCutoff > Len(name)
           THEN /\ wdPc' = "panic"
                /\ wdnames' = [wdnames EXCEPT ![WdIndex(wdI)] = name]
                /\ wdI' = wdI
           ELSE /\ wdPc' = wdPc
                /\ wdnames' = [wdnames EXCEPT ![WdIndex(wdI)] =
                                  IF CurCutoff > 0 THEN SubSeq(name, 1, CurCutoff)
                                  ELSE name]
                /\ wdI' = wdI + 1
    /\ UNCHANGED <<wdLocale, wdCutoff, wdCall, wdFull>>
    /\ UNCHANGED WdOthers

\* return wdnames
WdReturn ==
    /\ wdPc = "loop"
    /\ wdI > 6
    /\ wdPc' = "returned"
    /\ wdFull' = IF wdCall = 1 THEN wdnames ELSE wdFull
    /\ UNCHANGED <<wdLocale, wdCutoff, wdCall, wdI, wdnames>>
    /\ UNCHANGED WdOthers

\* The second call, same locale, cutoff wdCutoff.
WdCallAgain ==
    /\ wdPc = "returned"
    /\ wdCall = 1
    /\ wdCall' = 2
    /\ wdI' = 0
    /\ wdnames' = EmptyTable
    /\ wdPc' = "loop"
    /\ UNCHANGED <<wdLocale, wdCutoff, wdFull>>
    /\ UNCHANGED WdOthers

WdNext == WdStep \/ WdReturn \/ WdCallAgain

SpecWd == WdInit /\ [][WdNext]_vars

-----------------------------------------------------------------------------
(* Properties of getLocalizedWeekdayNames *)

IsPrefix(p, s) == Len(p) <= Len(s) /\ SubSeq(s, 1, Len(p)) = p

\* The second call has returned its table.
WdSecondReturned == wdCall = 2 /\ wdPc = "returned"

\* C5 as stated: a returned table has index 0 empty and indices 1..7 populated.
C5_IndexZeroUnused ==
    WdSecondReturned =>
        /\ wdnames[0] = <<>>
        /\ \A j \in 1..7 : wdnames[j] # <<>>

\* C5, amended: a returned table has indices 0..6 populated (index 0 holds the
\* name of the reference date itself) and index 7 empty; and index 7 is empty
\* at every point of the loop.
C5_IndexSevenUnused ==
    /\ wdPc \in {"loop", "returned", "panic"} => wdnames[7] = <<>>
    /\ wdPc = "returned" =>
           /\ \A j \in 0..6 : wdnames[j] # <<>>
           /\ wdnames[7] = <<>>
    /\ wdCall = 2 =>
           /\ \A j \in 0..6 : wdFull[j] # <<>>
           /\ wdFull[7] = <<>>

\* The call with cutoff 3 has returned a table of three-byte names.
C5_Witness ==
    /\ WdSecondReturned
    /\ wdCutoff = 3
    /\ \A j \in 0..6 : Len(wdnames[j]) = 3

\* C9 as stated: the call with cutoff 3 yields a result for every name, each a
\* byte-prefix of, and no longer than, the name the call with cutoff 0 yields.
C9_CutoffIsPrefix ==
    (wdCall = 2 /\ wdCutoff = 3) =>
        /\ wdPc # "panic"
        /\ \A j \in 0..6 :
               (j < wdI) => /\ IsPrefix(wdnames[j], wdFull[j])
                            /\ Len(wdFull[j]) >= Len(wdnames[j])

-----------------------------------------------------------------------------
(* readICSfile *)

\* The library behind ics.New() is not part of util.go.  It is modelled by what
\* readICSfile relies on: once it has the file name it hands the file's events
\* over on the unbuffered output channel, one by one and in order, and
\* parser.Wait() returns only after the last of them was handed over.

\* time.Time.Format with a zero-padded numeric layout ("2006", "01", "02").
RECURSIVE FormatPadded(_, _)
FormatPadded(n, width) ==
    IF width = 0 THEN <<>>
    ELSE Append(FormatPadded(n \div 10, width - 1), Digits[(n % 10) + 1])

EventYears == {2024, 2025}

EventDays == { <<2, 29>>, <<12, 31>> }

\* "B" and "5€" in UTF-8
Summaries == { <<66>>, <<53, 226, 130, 172>> }

Events == [year : EventYears, md : EventDays, summary : Summaries]

NoEvent == <<>>

\* The record the consumer builds from an event (the gDate literal).
RecordOf(event) ==
    LET eventText == convertCP(event.summary)
        mo == ParseInt(FormatPadded(event.md[1], 2))
        d  == ParseInt(FormatPadded(event.md[2], 2))
    IN  gDate(mo, d, eventText, <<>>, <<>>)

\* if int(targetyear) == int(yr)
YearMatches(event) == targetyear = ParseInt(FormatPadded(event.year, 4))

IcsFresh ==
    /\ callerPc = "send"
    /\ parserPc = "idle"
    /\ emitted = 0
    /\ consPc = "none"
    /\ consEvent = NoEvent
    /\ icsEL = <<>>
    /\ icsRet = <<>>

IcsInit ==
    /\ CfIdle
    /\ WdIdle
    /\ MjIdle
    /\ MoIdle
    /\ icsEvents \in SeqsUpTo(Events, MaxEvents)
    /\ targetyear \in EventYears
    /\ icsRun = 1
    /\ icsFirst = <<>>
    /\ IcsFresh

\* inputChan <- filename: the parser has the file name and starts to parse.
IcsSend ==
    /\ callerPc = "send"
    /\ callerPc' = "spawn"
    /\ parserPc' = "parsing"
    /\ UNCHANGED <<icsEvents, targetyear, icsRun, emitted, consPc, consEvent,
                   icsEL, icsRet, icsFirst>>
    /\ UNCHANGED IcsOthers

\* go func() { for event := range outputChan { ... } }()
IcsSpawn ==
    /\ callerPc = "spawn"
    /\ callerPc' = "wait"
    /\ consPc' = "recv"
    /\ UNCHANGED <<icsEvents, targetyear, icsRun, parserPc, emitted, consEvent,
                   icsEL, icsRet, icsFirst>>
    /\ UNCHANGED IcsOthers

\* The parser's send on outputChan meets the consumer's receive.
IcsHandoff ==
    /\ parserPc = "parsing"
    /\ emitted < Len(icsEvents)
    /\ consPc = "recv"
    /\ consEvent' = icsEvents[emitted + 1]
    /\ consPc' = "got"
    /\ emitted' = emitted + 1
    /\ UNCHANGED <<icsEvents, targetyear, icsRun, callerPc, parserPc, icsEL,
                   icsRet, icsFirst>>
    /\ UNCHANGED IcsOthers

\* The body of the consumer's loop.
IcsConsume ==
    /\ consPc = "got"
    /\ icsEL' = IF YearMatches(consEvent)
                THEN Append(icsEL, RecordOf(consEvent))
                ELSE icsEL
    /\ consPc' = "recv"
    /\ consEvent' = NoEvent
    /\ UNCHANGED <<icsEvents, targetyear, icsRun, callerPc, parserPc, emitted,
                   icsRet, icsFirst>>
    /\ UNCHANGED IcsOthers

\* The parser has handed over every event of the file.
IcsParserDone ==
    /\ parserPc = "parsing"
    /\ emitted = Len(icsEvents)
    /\ parserPc' = "done"
    /\ UNCHANGED <<icsEvents, targetyear, icsRun, callerPc, emitted, consPc,
                   consEvent, icsEL, icsRet, icsFirst>>
    /\ UNCHANGED IcsOthers

\* parser.Wait(); return eL.  Nothing orders the return after the consumer's
\* last append: the caller reads eL as it is at this moment.
IcsWaitReturn ==
    /\ callerPc = "wait"
    /\ parserPc = "done"
    /\ callerPc' = "returned"
    /\ icsRet' = icsEL
    /\ UNCHANGED <<icsEvents, targetyear, icsRun, parserPc, emitted, consPc,
                   consEvent, icsEL, icsFirst>>
    /\ UNCHANGED IcsOthers

\* The second call: a new parser, new channels, a new eL and a new consumer.
IcsCallAgain ==
    /\ callerPc = "returned"
    /\ icsRun = 1
    /\ icsRun' = 2
    /\ icsFirst' = icsRet
    /\ callerPc' = "send"
    /\ parserPc' = "idle"
    /\ emitted' = 0
    /\ consPc' = "none"
    /\ consEvent' = NoEvent
    /\ icsEL' = <<>>
    /\ icsRet' = <<>>
    /\ UNCHANGED <<icsEvents, targetyear>>
    /\ UNCHANGED IcsOthers

IcsNext ==
    \/ IcsSend \/ IcsSpawn \/ IcsHandoff \/ IcsConsume
    \/ IcsParserDone \/ IcsWaitReturn \/ IcsCallAgain

SpecICS == IcsInit /\ [][IcsNext]_vars

-----------------------------------------------------------------------------
(* Properties of readICSfile *)

\* One record for every event of the target year, in the file's order.
RECURSIVE ExpectedRecords(_, _)
ExpectedRecords(events, year) ==
    IF events = <<>> THEN <<>>
    ELSE LET e == Head(events)
             rest == ExpectedRecords(Tail(events), year)
         IN  IF e.year = year
             THEN <<[month |-> e.md[1], day |-> e.md[2],
                     text |-> convertCP(e.summary), weekday |-> <<>>,
                     image |-> <<>>]>> \o rest
             ELSE rest

\* C1 as stated: what readICSfile returns holds exactly one record for every
\* emitted event of the target year and none for another year, whatever the
\* interleaving of the consumer with the caller.
C1_ReturnsEveryTargetYearEvent ==
    callerPc = "returned" =>
        /\ emitted = Len(icsEvents)
        /\ icsRet = ExpectedRecords(icsEvents, targetyear)

\* C4 as stated, for the importer: two calls with the same file and target
\* year return the same sequence, whatever the goroutine scheduling.
C4_SecondCallReturnsTheSame ==
    (icsRun = 2 /\ callerPc = "returned") => icsRet = icsFirst

-----------------------------------------------------------------------------
(* The moon-phase calculator *)

\* m[k] = val
MapPut(m, k, val) ==
    [x \in DOMAIN m \cup {k} |-> IF x = k THEN val ELSE m[x]]

\* julian.LeapYearGregorian
LeapYearGregorian(y) == (y % 4 = 0 /\ y % 100 # 0) \/ y % 400 = 0

\* daysInYear := 365; if julian.LeapYearGregorian(yr) { daysInYear = 366 }
DaysInYear(yr) == IF LeapYearGregorian(yr) THEN 366 ELSE 365

\* The quarter of the lunation each phase function stands for (in quarters).
Quarter(kind) ==
    CASE kind = "New" -> 0
      [] kind = "First" -> 1
      [] kind = "Full" -> 2
      [] kind = "Last" -> 3

\* moonphase.New/First/Full/Last at decimalYear = yr + (i-1)/daysInYear: the
\* phase of that kind nearest the decimal year.  The lunation number
\* k = (year - 2000) * 12.3685 is snapped to the nearest k of the phase's
\* quarter; the result counts quarter lunations since the new moon of
\* 6 January 2000.
SnapQuarters(kind, yr, i) ==
    LET D == DaysInYear(yr)
        N == (yr - 2000) * D + (i - 1)
        Q == Quarter(kind)
    IN  4 * ((49474 * N + (2 - Q) * 1000 * D) \div (4000 * D)) + Q

\* The Julian day of that phase, as the day number Z of JD + 0.5 (what
\* julian.JDToCalendar takes the date from).  JDE = 2451550.09766 +
\* 29.530588861 k, in units of 1/10000 day; the periodic terms of the phase
\* functions, which move a phase by less than a day, are left out.
PhaseDayNumber(kind, yr, i) ==
    LET L  == SnapQuarters(kind, yr, i)
        t4 == 977 + 73826 * L + (4722 * L) \div 10000
    IN  2451550 + (5000 + t4) \div 10000

\* julian.JDToCalendar, on the day number Z (Gregorian: Z >= 2299151), with
\* the day already truncated as int(d) does.
JDToCalendar(Z) ==
    LET alpha == (Z * 100 - 186721625) \div 3652425
        a == Z + 1 + alpha - alpha \div 4
        b == a + 1524
        c == (b * 100 - 12210) \div 36525
        dd == (36525 * c) \div 100
        e == ((b - dd) * 10000) \div 306001
        day == (b - dd) - (306001 * e) \div 10000
        month == IF e \in {14, 15} THEN e - 13 ELSE e - 1
        year == IF month \in {1, 2} THEN c - 4715 ELSE c - 4716
    IN  [y |-> year, m |-> month, d |-> day]

\* The key without the zero padding of month and day.
MoonStringUnpadded(y, m, d) ==
    FormatPadded(y, 4) \o <<"-">> \o FormatPadded(m, IF m < 10 THEN 1 ELSE 2)
        \o <<"-">> \o FormatPadded(d, IF d < 10 THEN 1 ELSE 2)

\* fmt.Sprintf("%04d-%02d-%02d", y, m, int(d))
MoonString(y, m, d) ==
    FormatPadded(y, 4) \o <<"-">> \o FormatPadded(m, 2) \o <<"-">> \o FormatPadded(d, 2)

\* The keys of moon_funcs.
PhaseKinds == {"Full", "New", "First", "Last"}

\* The key one pass of the inner loop writes.
PhaseKey(kind, yr, i) ==
    LET cal == JDToCalendar(PhaseDayNumber(kind, yr, i))
    IN  MoonString(cal.y, cal.m, cal.d)

MoonYears == {2023, 2024}

MjInit ==
    /\ CfIdle
    /\ WdIdle
    /\ IcsIdle
    /\ MoIdle
    /\ mjYr \in MoonYears
    /\ mjI = 0
    /\ mjLeft = PhaseKinds
    /\ moonJ = EmptyMap
    /\ mjPc = "loop"

\* One pass of `for moonkey, _ := range moon_funcs`: Go visits the keys of a
\* map in an order of its own choosing.
MjVisit ==
    /\ mjPc = "loop"
    /\ mjI < DaysInYear(mjYr)
    /\ \E moonkey \in mjLeft :
           /\ moonJ' = MapPut(moonJ, PhaseKey(moonkey, mjYr, mjI), moonkey)
           /\ IF mjLeft = {moonkey}
              THEN mjLeft' = PhaseKinds /\ mjI' = mjI + 1
              ELSE mjLeft' = mjLeft \ {moonkey} /\ mjI' = mjI
    /\ UNCHANGED <<mjYr, mjPc>>
    /\ UNCHANGED MjOthers

\* i == daysInYear: the function returns.
MjDone ==
    /\ mjPc = "loop"
    /\ mjI >= DaysInYear(mjYr)
    /\ mjPc' = "done"
    /\ UNCHANGED <<mjYr, mjI, mjLeft, moonJ>>
    /\ UNCHANGED MjOthers

MjNext == MjVisit \/ MjDone

SpecMoonJ == MjInit /\ [][MjNext]_vars

-----------------------------------------------------------------------------
(* Properties of computeMoonphasesJ *)

DaysInMonth(y, m) ==
    IF m = 2 THEN (IF LeapYearGregorian(y) THEN 29 ELSE 28)
    ELSE IF m \in {4, 6, 9, 11} THEN 30 ELSE 31

\* The key "YYYY-MM-DD" of a calendar day.
DayKey(y, m, d) ==
    <<Digits[((y \div 1000) % 10) + 1], Digits[((y \div 100) % 10) + 1],
      Digits[((y \div 10) % 10) + 1], Digits[(y % 10) + 1], "-",
      Digits[(m \div 10) + 1], Digits[(m % 10) + 1], "-",
      Digits[(d \div 10) + 1], Digits[(d % 10) + 1]>>

IsDateKey(key) ==
    /\ Len(key) = 10
    /\ key[5] = "-" /\ key[8] = "-"
    /\ \A p \in {1, 2, 3, 4, 6, 7, 9, 10} : IsDigit(key[p])

Labels == {"New", "First", "Full", "Last"}

\* C3 as stated: after the call the map holds an entry for every calendar day
\* of the year, 365 or 366 keys, each with a label of the four.
C3_EntryForEveryDay ==
    mjPc = "done" =>
        /\ \A m \in 1..12 : \A d \in 1..DaysInMonth(mjYr, m) :
               DayKey(mjYr, m, d) \in DOMAIN moonJ
        /\ Cardinality(DOMAIN moonJ) = DaysInYear(mjYr)
        /\ \A key \in DOMAIN moonJ : moonJ[key] \in Labels

\* C3, amended: the map holds an entry exactly for the dates on which the
\* phase nearest to some day index of the year falls (at most 14 dates a
\* phase kind, so at most 56 keys, not one for every day), each key of the
\* form YYYY-MM-DD and each label that of a phase kind falling on that date.
C3_EntryForEveryPhaseDate ==
    /\ \A key \in DOMAIN moonJ : moonJ[key] \in Labels /\ IsDateKey(key)
    /\ mjPc = "done" =>
           /\ \A key \in DOMAIN moonJ :
                  \E i \in 0..(DaysInYear(mjYr) - 1) :
                      PhaseKey(moonJ[key], mjYr, i) = key
           /\ \A i \in 0..(DaysInYear(mjYr) - 1) : \A kind \in PhaseKinds :
                  PhaseKey(kind, mjYr, i) \in DOMAIN moonJ
           /\ Cardinality(DOMAIN moonJ) <= 56
           /\ Cardinality(DOMAIN moonJ) < DaysInYear(mjYr)

\* The map of the leap year 2024, complete, with a phase of each kind in it.
C3_Witness ==
    /\ mjPc = "done"
    /\ mjYr = 2024
    /\ mjI = 366
    /\ Cardinality(DOMAIN moonJ) >= 48
    /\ \A kind \in Labels : \E key \in DOMAIN moonJ : moonJ[key] = kind

-----------------------------------------------------------------------------
(* computeMoonphases *)

\* The order with the tests of First and Last exchanged.
PhaseOrderLastBeforeFirst == <<"New", "Full", "Last", "First">>

\* The order of the four tests of one iteration: moonphase.New, Full, First
\* and Last.
PhaseOrder == <<"New", "Full", "First", "Last">>

\* What julian.JDToCalendar(moonphase.X(decimalYear)) may yield in one test.
\* computeMoonphases is checked for whatever dates the phase functions give:
\* a date of the month asked for, of the month after it or of the year after
\* it, with the day as a float in tenths (1.0, 1.9, 31.5).
PhaseDayTenths == {10, 19, 315}

PhaseResults(yr, mo) ==
    [y : {yr}, m : {mo}, d : PhaseDayTenths]
        \cup { [y |-> yr, m |-> (mo % 12) + 1, d |-> 10],
               [y |-> yr + 1, m |-> mo, d |-> 315] }

\* int(d)
IntOfDay(d) == d \div 10

\* (y == yr) && (m == mo) && (int(d) == i)
PhaseMatches(r, yr, mo, i) == r.y = yr /\ r.m = mo /\ IntOfDay(r.d) = i

MoInit ==
    /\ CfIdle
    /\ WdIdle
    /\ IcsIdle
    /\ MjIdle
    /\ moYr \in {2024}
    /\ moMo \in {2, 12}
    /\ moDa \in {1}
    /\ moI = 0
    /\ moSub = 1
    /\ moon = EmptyMap
    /\ moMatched = [i \in 0..31 |-> {}]
    /\ moPc = "loop"

\* One of the four tests of iteration i: the phase function of PhaseOrder[moSub]
\* is called, its date compared with (yr, mo, i) and, on a match, stored.
MoTest ==
    /\ moPc = "loop"
    /\ moI < 32
    /\ \E r \in PhaseResults(moYr, moMo) :
           LET kind == PhaseOrder[moSub]
           IN  IF PhaseMatches(r, moYr, moMo, moI)
               THEN /\ moon' = MapPut(moon, IntOfDay(r.d), kind)
                    /\ moMatched' = [moMatched EXCEPT ![moI] = @ \cup {kind}]
               ELSE UNCHANGED <<moon, moMatched>>
    /\ IF moSub = 4
       THEN moSub' = 1 /\ moI' = moI + 1
       ELSE moSub' = moSub + 1 /\ moI' = moI
    /\ UNCHANGED <<moYr, moMo, moDa, moPc>>
    /\ UNCHANGED MoOthers

\* i == 32: the function returns.
MoDone ==
    /\ moPc = "loop"
    /\ moI >= 32
    /\ moPc' = "done"
    /\ UNCHANGED <<moYr, moMo, moDa, moI, moSub, moon, moMatched>>
    /\ UNCHANGED MoOthers

MoNext == MoTest \/ MoDone

SpecMoon == MoInit /\ [][MoNext]_vars

-----------------------------------------------------------------------------
(* Properties of computeMoonphases *)

\* Of the kinds that matched a day, the one evaluated last in the order
\* New, Full, First, Last.
LastEvaluated(kinds) ==
    IF "Last" \in kinds THEN "Last"
    ELSE IF "First" \in kinds THEN "First"
    ELSE IF "Full" \in kinds THEN "Full"
    ELSE "New"

\* C10: every key written lies in 1..31, a key is written exactly for the
\* offsets at which some phase kind matched, and its value is, during and
\* after the call, the matching kind evaluated last in the order New, Full,
\* First, Last (Last over First over Full over New).
C10_LastEvaluatedWins ==
    /\ DOMAIN moon \subseteq 1..31
    /\ \A i \in 0..31 : (i \in DOMAIN moon) <=> (moMatched[i] # {})
    /\ \A key \in DOMAIN moon : moon[key] = LastEvaluated(moMatched[key])

\* After the call: on day 1 Full and First matched and First is stored; on
\* day 31 all four matched and Last is stored.
C10_Witness ==
    /\ moPc = "done"
    /\ moMatched[1] = {"Full", "First"}
    /\ moon[1] = "First"
    /\ moMatched[31] = {"New", "Full", "First", "Last"}
    /\ moon[31] = "Last"

=============================================================================
